---- MODULE Spec2Model ----
(***************************************************************************)
(* The dual-linked node model of sigil_bs4/element.py: every PageElement   *)
(* carries parent / contents (sibling order) and previous_element /        *)
(* next_element (document order) links, and the mutation primitives        *)
(* extract, insert, append, replace_with, unwrap, wrap, insert_before and  *)
(* insert_after re-stitch them.  Nodes are arena handles; None is 0.       *)
(***************************************************************************)
EXTENDS Integers, Sequences, FiniteSets, TLC

NumTags == 2
NumTexts == 2

Tags == 1..NumTags
Texts == (NumTags + 1)..(NumTags + NumTexts)
Nodes == Tags \cup Texts

\* further tags, for the trees that only the queries walk
NumMoreTags == 3
MoreTags == (NumTags + NumTexts + 1)..(NumTags + NumTexts + NumMoreTags)
None == 0
\* marker for a loop of the code that never exits
HANG == 0 - 1

TagNames == {"a", "b"}
Strings == {"", "s", "t"}

VARIABLES doc, payload, last, pre, before, calls

vars == <<doc, payload, last, pre, before, calls>>

----------------------------------------------------------------------------
(* Values, truthiness and equality of nodes                                *)

\* bool(node): Tag.__bool__ is always True, a NavigableString is a str
Truthy(n) == n # None /\ (n \notin Texts \/ payload[n] # "")

Min(a, b) == IF a < b THEN a ELSE b

EqFuel == (NumTags + NumTexts) * (NumTags + NumTexts)

\* c and rest, for comparisons that end "T", "F" or "R"
EqAnd(c, rest) == IF c = "T" THEN rest ELSE c

\* a == b as Python evaluates it: "T", "F", or "R" when Tag.__eq__ recurses
\* without end on a cyclic contents structure (RecursionError)
RECURSIVE PyEq(_, _, _, _)
RECURSIVE ContentsEq(_, _, _, _, _)
PyEq(h, a, b, fuel) ==
    IF a = b THEN "T"
    ELSE IF a = None \/ b = None THEN "F"
    ELSE IF a \in Texts /\ b \in Texts
         THEN (IF payload[a] = payload[b] THEN "T" ELSE "F")
    ELSE IF a \in Texts \/ b \in Texts THEN "F"
    ELSE IF payload[a] # payload[b]
            \/ Len(h.contents[a]) # Len(h.contents[b]) THEN "F"
    ELSE IF fuel = 0 THEN "R"
    ELSE ContentsEq(h, a, b, 1, fuel - 1)

ContentsEq(h, a, b, i, fuel) ==
    IF i > Len(h.contents[a]) THEN "T"
    ELSE EqAnd(PyEq(h, h.contents[a][i], h.contents[b][i], fuel),
               ContentsEq(h, a, b, i + 1, fuel))

Not(e) == IF e = "T" THEN "F" ELSE IF e = "F" THEN "T" ELSE "R"

\* a != b
PyNe(h, a, b) == Not(PyEq(h, a, b, EqFuel))

----------------------------------------------------------------------------
(* Results of a call: the links it leaves and how it ended                 *)

Ok(h) == [h |-> h, out |-> "ok"]
Raise(h, e) == [h |-> h, out |-> e]

\* the next statement F runs on the links the statement before it left,
\* unless that one raised or hung
Then(r, F(_)) == IF r.out = "ok" THEN F(r.h) ELSE r

DelAt(s, i) == SubSeq(s, 1, i - 1) \o SubSeq(s, i + 1, Len(s))
\* list.insert(pos, v) with 0 <= pos <= len
ListInsert(s, pos, v) == SubSeq(s, 1, pos) \o <<v>> \o SubSeq(s, pos + 1, Len(s))

\* Tag.index: position (from 0) of the child that IS element, -1 for the
\* ValueError raised when there is none
index(h, p, element) ==
    LET hits == {i \in 1..Len(h.contents[p]) : h.contents[p][i] = element}
    IN IF hits = {} THEN 0 - 1
       ELSE (CHOOSE i \in hits : \A j \in hits : i <= j) - 1

\* while isinstance(last_child, Tag) and last_child.contents:
\*     last_child = last_child.contents[-1]
RECURSIVE LastChildWalk(_, _, _)
LastChildWalk(h, n, fuel) ==
    IF n \notin Texts /\ Len(h.contents[n]) > 0
    THEN (IF fuel = 0 THEN HANG
          ELSE LastChildWalk(h, h.contents[n][Len(h.contents[n])], fuel - 1))
    ELSE n

\* accept_self is True at every call site of the mutation primitives
_last_descendant(h, n, is_initialized) ==
    IF is_initialized /\ Truthy(h.next_sibling[n])
    THEN h.previous_element[h.next_sibling[n]]
    ELSE LastChildWalk(h, n, NumTags + NumTexts + NumMoreTags)

----------------------------------------------------------------------------
(* PageElement.extract                                                     *)

\* a.field = b when the comparison a != b said "T"
relink_if(h, field, a, b, ne) ==
    IF ne = "R" THEN Raise(h, "RecursionError")
    ELSE IF ne = "T" THEN Ok([h EXCEPT ![field][a] = b])
    ELSE Ok(h)

\* if a is not None and a != b: a.field = b
relink(h, field, a, b) ==
    IF a = None THEN Ok(h) ELSE relink_if(h, field, a, b, PyNe(h, a, b))

\* lines 306-312: the sibling links
extract_siblings(h, x) ==
    Then(relink(h, "next_sibling", h.previous_sibling[x], h.next_sibling[x]),
         LAMBDA h1 :
    Then(relink(h1, "previous_sibling", h.next_sibling[x], h.previous_sibling[x]),
         LAMBDA h2 :
    Ok([h2 EXCEPT !.previous_sibling[x] = None, !.next_sibling[x] = None])))

\* lines 295-305: the document-order links and the parent link
extract_from(h, x, last_child) ==
    IF last_child = HANG THEN Raise(h, "hang")
    ELSE IF last_child = None THEN Raise(h, "AttributeError")
    ELSE
    Then(relink(h, "next_element", h.previous_element[x], h.next_element[last_child]),
         LAMBDA h1 :
    Then(relink(h1, "previous_element", h.next_element[last_child],
                h.previous_element[x]),
         LAMBDA h2 :
    extract_siblings([h2 EXCEPT !.previous_element[x] = None,
                                !.next_element[last_child] = None,
                                !.parent[x] = None], x)))

\* the document-order links cut behind x itself, not behind its last
\* descendant
extract_elements_self(h, x) == extract_from(h, x, x)

\* line 294
extract_elements(h, x) == extract_from(h, x, _last_descendant(h, x, TRUE))

extract(h, x) ==
    LET p == h.parent[x]
        i == IF p = None THEN 0 - 1 ELSE index(h, p, x)
    IN IF p # None /\ i < 0 THEN Raise(h, "ValueError")
       ELSE extract_elements(IF p # None
                             THEN [h EXCEPT !.contents[p] = DelAt(@, i + 1)]
                             ELSE h, x)

----------------------------------------------------------------------------
(* PageElement.insert and append                                           *)

\* lines 368-375: climb from the receiver to the nearest node that has a
\* next sibling; None at the end of the document, HANG on a parent cycle
RECURSIVE parents_next_sibling(_, _, _)
parents_next_sibling(h, parent, fuel) ==
    IF parent = None THEN None
    ELSE IF h.next_sibling[parent] # None THEN h.next_sibling[parent]
    ELSE IF fuel = 0 THEN HANG
    ELSE parents_next_sibling(h, h.parent[parent], fuel - 1)

\* lines 376-381 and 389-391: new_child is the last child
insert_last(h, self, position, new_child, new_childs_last_element, pns) ==
    IF pns = HANG THEN Raise(h, "hang")
    ELSE Ok([h EXCEPT !.next_element[new_childs_last_element] = pns,
                      !.previous_element =
                          IF pns # None
                          THEN [@ EXCEPT ![pns] = new_childs_last_element]
                          ELSE @,
                      !.contents[self] = ListInsert(@, position, new_child)])

\* lines 365-391: the successor of new_child's last descendant, and the
\* placement in contents
insert_next(h, self, position, new_child, new_childs_last_element) ==
    IF new_childs_last_element = HANG THEN Raise(h, "hang")
    ELSE IF position >= Len(h.contents[self])
    THEN insert_last([h EXCEPT !.next_sibling[new_child] = None],
                     self, position, new_child, new_childs_last_element,
                     parents_next_sibling(
                         [h EXCEPT !.next_sibling[new_child] = None],
                         self, NumTags + NumTexts + NumMoreTags))
    ELSE Ok([h EXCEPT !.next_sibling[new_child] = h.contents[self][position + 1],
                      !.previous_sibling[h.contents[self][position + 1]] = new_child,
                      !.next_element[new_childs_last_element] =
                          h.contents[self][position + 1],
                      !.previous_element[h.contents[self][position + 1]] =
                          new_childs_last_element,
                      !.contents[self] = ListInsert(@, position, new_child)])

\* line 363
insert_tail(h, self, position, new_child) ==
    insert_next(h, self, position, new_child,
                _last_descendant(h, new_child, FALSE))

\* lines 356-361: new_child follows previous_child and its last descendant
insert_after_child(h, self, new_child, previous_child, ld) ==
    IF ld = HANG
    THEN Raise([h EXCEPT !.parent[new_child] = self,
                         !.previous_sibling[new_child] = previous_child,
                         !.next_sibling[previous_child] = new_child], "hang")
    ELSE Ok([h EXCEPT !.parent[new_child] = self,
                      !.previous_sibling[new_child] = previous_child,
                      !.next_sibling[previous_child] = new_child,
                      !.previous_element[new_child] = ld,
                      !.next_element[ld] = new_child])

\* lines 350-361: parent, previous sibling and document-order predecessor
insert_head(h, self, position, new_child) ==
    IF position = 0
    THEN Ok([h EXCEPT !.parent[new_child] = self,
                      !.previous_sibling[new_child] = None,
                      !.previous_element[new_child] = self,
                      !.next_element[self] = new_child])
    ELSE insert_after_child(h, self, new_child, h.contents[self][position],
                            _last_descendant(h, h.contents[self][position], FALSE))

\* lines 350-391
insert_link(h, self, position, new_child) ==
    Then(insert_head(h, self, position, new_child),
         LAMBDA g : insert_tail(g, self, position, new_child))

\* lines 330-348 without the decrement of lines 343-347: a child moved
\* within its parent lands one place too far down
insert_unshifted(h, self, position, new_child) ==
    IF new_child = self THEN Raise(h, "ValueError")
    ELSE IF self \in Texts THEN Raise(h, "AttributeError")
    ELSE IF h.parent[new_child] = self /\ index(h, self, new_child) < 0
    THEN Raise(h, "ValueError")
    ELSE Then(IF h.parent[new_child] = None THEN Ok(h) ELSE extract(h, new_child),
              LAMBDA g : insert_link(g, self, Min(position, Len(g.contents[self])),
                                     new_child))

\* lines 330-348: the self check, the clamp of position, and the move of a
\* child that already has a parent
insert(h, self, position, new_child) ==
    IF new_child = self THEN Raise(h, "ValueError")
    ELSE IF self \in Texts THEN Raise(h, "AttributeError")
    ELSE LET clamped == Min(position, Len(h.contents[self]))
             in_self == h.parent[new_child] = self
             current_index == IF in_self THEN index(h, self, new_child) ELSE 0 - 1
             target == IF in_self /\ current_index >= 0 /\ current_index < clamped
                       THEN clamped - 1 ELSE clamped
         IN IF in_self /\ current_index < 0 THEN Raise(h, "ValueError")
            ELSE Then(IF h.parent[new_child] = None THEN Ok(h)
                      ELSE extract(h, new_child),
                      LAMBDA g : insert_link(g, self, target, new_child))

append(h, self, tag) ==
    IF self \in Texts THEN Raise(h, "AttributeError")
    ELSE insert(h, self, Len(h.contents[self]), tag)

----------------------------------------------------------------------------
(* replace_with, unwrap, wrap, insert_before, insert_after                 *)

\* replace_with raising where line 257 returns
replace_with_strict(h, self, node) ==
    IF h.parent[self] = None THEN Raise(h, "ValueError")
    ELSE IF node = self THEN Raise(h, "ValueError")
    ELSE IF node = h.parent[self] THEN Raise(h, "ValueError")
    ELSE IF index(h, h.parent[self], self) < 0 THEN Raise(h, "ValueError")
    ELSE Then(extract(h, self),
              LAMBDA g : insert(g, h.parent[self], index(h, h.parent[self], self),
                                node))

replace_with(h, self, node) ==
    IF h.parent[self] = None THEN Raise(h, "ValueError")
    ELSE IF node = self THEN Ok(h)
    ELSE IF node = h.parent[self] THEN Raise(h, "ValueError")
    ELSE IF index(h, h.parent[self], self) < 0 THEN Raise(h, "ValueError")
    ELSE Then(extract(h, self),
              LAMBDA g : insert(g, h.parent[self], index(h, h.parent[self], self),
                                node))

\* for child in reversed(self.contents[:]): my_parent.insert(my_index, child)
RECURSIVE unwrap_children(_, _, _, _, _)
unwrap_children(h, my_parent, my_index, children, k) ==
    IF k = 0 THEN Ok(h)
    ELSE Then(insert(h, my_parent, my_index, children[k]),
              LAMBDA g : unwrap_children(g, my_parent, my_index, children, k - 1))

\* for child in self.contents[:]: without reversed, each child lands in
\* front of the one before it
RECURSIVE children_forward(_, _, _, _, _)
children_forward(h, my_parent, my_index, children, k) ==
    IF k > Len(children) THEN Ok(h)
    ELSE Then(insert(h, my_parent, my_index, children[k]),
              LAMBDA g : children_forward(g, my_parent, my_index, children, k + 1))

unwrap_forward(h, self) ==
    IF h.parent[self] = None THEN Raise(h, "ValueError")
    ELSE IF index(h, h.parent[self], self) < 0 THEN Raise(h, "ValueError")
    ELSE Then(extract(h, self),
              LAMBDA g : IF self \in Texts THEN Raise(g, "AttributeError")
                         ELSE children_forward(g, h.parent[self],
                                               index(h, h.parent[self], self),
                                               g.contents[self], 1))

\* unwrap placing the children one place after the index of self
unwrap_after(h, self) ==
    IF h.parent[self] = None THEN Raise(h, "ValueError")
    ELSE IF index(h, h.parent[self], self) < 0 THEN Raise(h, "ValueError")
    ELSE Then(extract(h, self),
              LAMBDA g : IF self \in Texts THEN Raise(g, "AttributeError")
                         ELSE unwrap_children(g, h.parent[self],
                                              index(h, h.parent[self], self) + 1,
                                              g.contents[self],
                                              Len(g.contents[self])))

\* a NavigableString has no contents: line 275 raises AttributeError after
\* the extract
unwrap(h, self) ==
    IF h.parent[self] = None THEN Raise(h, "ValueError")
    ELSE IF index(h, h.parent[self], self) < 0 THEN Raise(h, "ValueError")
    ELSE Then(extract(h, self),
              LAMBDA g : IF self \in Texts THEN Raise(g, "AttributeError")
                         ELSE unwrap_children(g, h.parent[self],
                                              index(h, h.parent[self], self),
                                              g.contents[self],
                                              Len(g.contents[self])))

\* wrap putting self in front of the children of wrap_inside
wrap_first(h, self, wrap_inside) ==
    Then(replace_with(h, self, wrap_inside),
         LAMBDA g : IF wrap_inside = self THEN Raise(g, "AttributeError")
                    ELSE insert(g, wrap_inside, 0, self))

\* replace_with returns None when wrap_inside is self, and append(None)
\* then fails on None.parent before it changes a link
wrap(h, self, wrap_inside) ==
    Then(replace_with(h, self, wrap_inside),
         LAMBDA g : IF wrap_inside = self THEN Raise(g, "AttributeError")
                    ELSE append(g, wrap_inside, self))

\* parent.insert(index + offset, other) after parent.index(self), which
\* raises ValueError when self is no longer among the children
insert_beside(h, parent, self, other, offset) ==
    IF index(h, parent, self) < 0 THEN Raise(h, "ValueError")
    ELSE insert(h, parent, index(h, parent, self) + offset, other)

insert_before(h, self, predecessor) ==
    IF self = predecessor THEN Raise(h, "ValueError")
    ELSE IF h.parent[self] = None THEN Raise(h, "ValueError")
    ELSE Then(extract(h, predecessor),
              LAMBDA g : insert_beside(g, h.parent[self], self, predecessor, 0))

\* insert_after without the step to the following index
insert_after_at_index(h, self, successor) ==
    IF self = successor THEN Raise(h, "ValueError")
    ELSE IF h.parent[self] = None THEN Raise(h, "ValueError")
    ELSE Then(extract(h, successor),
              LAMBDA g : insert_beside(g, h.parent[self], self, successor, 0))

insert_after(h, self, successor) ==
    IF self = successor THEN Raise(h, "ValueError")
    ELSE IF h.parent[self] = None THEN Raise(h, "ValueError")
    ELSE Then(extract(h, successor),
              LAMBDA g : insert_beside(g, h.parent[self], self, successor, 1))

----------------------------------------------------------------------------
(* Tag.decompose                                                           *)

\* i.__dict__.clear(); i.contents = []: the node has no attribute but an
\* empty contents, and a read of a link of a cleared tag goes through
\* Tag.__getattr__ to find(), which finds nothing in the empty contents and
\* returns None
clear(h, i) ==
    [h EXCEPT !.parent[i] = None, !.contents[i] = <<>>,
              !.previous_sibling[i] = None, !.next_sibling[i] = None,
              !.previous_element[i] = None, !.next_element[i] = None]

\* a decomposition: the links it left, the nodes it cleared, how it ended
Cleared(h, res, out) == [out |-> out, h |-> h, res |-> res]

InSeq(s, v) == \E k \in 1..Len(s) : s[k] = v

\* while i is not None: next = i.next_element; clear i; i = next.  A cleared
\* NavigableString that the walk meets again has no next_element attribute.
RECURSIVE decompose_walk(_, _, _, _)
decompose_walk(h, i, fuel, res) ==
    IF i = None THEN Cleared(h, res, "ok")
    ELSE IF i \in Texts /\ InSeq(res, i) THEN Cleared(h, res, "AttributeError")
    ELSE IF fuel = 0 THEN Cleared(h, res, "hang")
    ELSE decompose_walk(clear(h, i), h.next_element[i], fuel - 1, Append(res, i))

decompose_extracted(r, self) ==
    IF r.out = "ok" THEN decompose_walk(r.h, self, 2 * (NumTags + NumTexts), <<>>)
    ELSE Cleared(r.h, <<>>, r.out)

decompose(h, self) == decompose_extracted(extract(h, self), self)

----------------------------------------------------------------------------
(* Tag.descendants                                                         *)

\* what a generator yielded and how it ended
Yield(res, out) == [out |-> out, res |-> res]

\* while current is not stopNode: yield current; current = current.next_element
RECURSIVE descendants_walk(_, _, _, _, _)
descendants_walk(h, current, stopNode, fuel, res) ==
    IF current = stopNode THEN Yield(res, "ok")
    ELSE IF current = None THEN Yield(Append(res, None), "AttributeError")
    ELSE IF fuel = 0 THEN Yield(res, "hang")
    ELSE descendants_walk(h, h.next_element[current], stopNode, fuel - 1,
                          Append(res, current))

descendants_from(h, self, ld) ==
    IF ld = HANG THEN Yield(<<>>, "hang")
    ELSE IF ld = None THEN Yield(<<>>, "AttributeError")
    ELSE descendants_walk(h, h.contents[self][1], h.next_element[ld],
                          2 * (NumTags + NumTexts), <<>>)

descendants(h, self) ==
    IF Len(h.contents[self]) = 0 THEN Yield(<<>>, "ok")
    ELSE descendants_from(h, self, _last_descendant(h, self, TRUE))

----------------------------------------------------------------------------
(* SoupStrainer                                                            *)

\* the values a matcher, a name, an attribute value or .string can be: None,
\* True, a str, or a list of str
PyNone == [t |-> "None", s |-> "", l |-> <<>>]
PyTrue == [t |-> "True", s |-> "", l |-> <<>>]
Str(s) == [t |-> "str", s |-> s, l |-> <<>>]
List(l) == [t |-> "list", s |-> "", l |-> l]

\* bool(v)
TruthyValue(v) ==
    \/ v.t = "True"
    \/ v.t = "str" /\ v.s # ""
    \/ v.t = "list" /\ v.l # <<>>

\* whitespace_re.split(s), for the strings of AttrStrings
Words(s) == IF s = "x y" THEN <<"x", "y">> ELSE <<s>>

\* _matches with the matcher None matching every markup
matches_none_always(markup, match_against) ==
    IF match_against.t = "None" THEN TRUE
    ELSE IF match_against.t = "True" THEN markup.t # "None"
    ELSE IF markup.t = "None" THEN ~TruthyValue(match_against)
    ELSE IF match_against.t = "str" THEN markup.s = match_against.s
    ELSE FALSE

\* lines 2069-2098, for markup None or a str; the result is the truth value
\* of what the code returns, which is None when a str meets the matcher None
matches_scalar(markup, match_against) ==
    IF match_against.t = "True" THEN markup.t # "None"
    ELSE IF markup.t = "None" THEN ~TruthyValue(match_against)
    ELSE IF match_against.t = "str" THEN markup.s = match_against.s
    ELSE IF match_against.t = "list"
         THEN \E k \in 1..Len(match_against.l) : match_against.l[k] = markup.s
    ELSE FALSE

\* SoupStrainer._matches; a Tag is passed as Str(tag.name) (lines 2077-2078)
_matches(markup, match_against) ==
    IF markup.t = "list"
    THEN (IF match_against.t = "str" /\ Len(Words(match_against.s)) > 1
          THEN Words(match_against.s) = markup.l
          ELSE \E k \in 1..Len(markup.l) :
                   matches_scalar(Str(markup.l[k]), match_against))
    ELSE matches_scalar(markup, match_against)

\* a strainer: its name matcher, whether attrs holds the key, the matcher
\* under that key, and its text matcher
SoupStrainer(name, has_attr, attr, text) ==
    [name |-> name, has_attr |-> has_attr, attr |-> attr, text |-> text]

\* what search_tag looks at in the markup: whether it is a Tag, its name, the
\* value that markup_attr_map.get(attr) returns and, for a Tag, its .string
Markup(is_tag, name, attr_value, string) ==
    [is_tag |-> is_tag, name |-> name, attr_value |-> attr_value,
     string |-> string]

\* what a search ends with: found says whether it returns the markup
Found(found, out) == [found |-> found, out |-> out]

\* search_tag without the test of lines 2015-2017
search_tag_any_text(self, markup) == Found(TRUE, "ok")

\* lines 2015-2017: found.string is read only when self.text is truthy, and
\* a markup name that is a str has no attribute string
search_tag_text(self, markup) ==
    IF ~TruthyValue(self.text) THEN Found(TRUE, "ok")
    ELSE IF ~markup.is_tag THEN Found(FALSE, "AttributeError")
    ELSE Found(_matches(markup.string, self.text), "ok")

\* lines 1990-2014
search_tag(self, markup) ==
    IF (~TruthyValue(self.name) \/ _matches(Str(markup.name), self.name))
       /\ (self.has_attr => _matches(markup.attr_value, self.attr))
    THEN search_tag_text(self, markup)
    ELSE Found(FALSE, "ok")

\* Tag.string
RECURSIVE string(_, _, _)
string(h, self, fuel) ==
    IF Len(h.contents[self]) # 1 THEN PyNone
    ELSE IF h.contents[self][1] \in Texts THEN Str(payload[h.contents[self][1]])
    ELSE IF fuel = 0 THEN PyNone
    ELSE string(h, h.contents[self][1], fuel - 1)

\* a Tag of the tree as search_tag sees it: no tag of these trees has an
\* attribute
MarkupOf(h, tag) ==
    Markup(TRUE, payload[tag], PyNone, string(h, tag, NumTags + NumTexts + NumMoreTags))

\* SoupStrainer.search, lines 2031-2038: whether it returns the markup
search(self, h, markup) ==
    IF markup \in Texts
    THEN ~TruthyValue(self.name) /\ ~self.has_attr
         /\ _matches(Str(payload[markup]), self.text)
    ELSE (~TruthyValue(self.text) \/ TruthyValue(self.name) \/ self.has_attr)
         /\ search_tag(self, MarkupOf(h, markup)).found

----------------------------------------------------------------------------
(* The generators and _find_all                                            *)

\* i = self.<field>; while i is not None: yield i; i = i.<field>
RECURSIVE walk(_, _, _, _, _)
walk(h, field, i, fuel, res) ==
    IF i = None THEN Yield(res, "ok")
    ELSE IF fuel = 0 THEN Yield(res, "hang")
    ELSE walk(h, field, h[field][i], fuel - 1, Append(res, i))

WalkFuel == 2 * (NumTags + NumTexts + NumMoreTags)

next_elements(h, self) == walk(h, "next_element", h.next_element[self], WalkFuel, <<>>)

next_siblings(h, self) == walk(h, "next_sibling", h.next_sibling[self], WalkFuel, <<>>)

previous_elements(h, self) ==
    walk(h, "previous_element", h.previous_element[self], WalkFuel, <<>>)

previous_siblings(h, self) ==
    walk(h, "previous_sibling", h.previous_sibling[self], WalkFuel, <<>>)

parents(h, self) == walk(h, "parent", h.parent[self], WalkFuel, <<>>)

\* the generator that each multi-result query hands to _find_all
generator(h, method, self) ==
    IF method = "find_all" THEN descendants(h, self)
    ELSE IF method = "find_all_next" THEN next_elements(h, self)
    ELSE IF method = "find_all_previous" THEN previous_elements(h, self)
    ELSE IF method = "find_next_siblings" THEN next_siblings(h, self)
    ELSE IF method = "find_previous_siblings" THEN previous_siblings(h, self)
    ELSE parents(h, self)

\* lines 558-570: the loop that stops at the limit
RECURSIVE find_loop(_, _, _, _, _, _, _)
find_loop(h, strainer, limit, items, k, out, results) ==
    IF k > Len(items) THEN Yield(results, out)
    ELSE IF Truthy(items[k]) /\ search(strainer, h, items[k])
    THEN (IF limit > 0 /\ Len(results) + 1 >= limit
          THEN Yield(Append(results, items[k]), "ok")
          ELSE find_loop(h, strainer, limit, items, k + 1, out,
                         Append(results, items[k])))
    ELSE find_loop(h, strainer, limit, items, k + 1, out, results)

\* lines 546-556: the generator expressions for a search by name alone
find_tags(h, name, items, out) ==
    Yield(SelectSeq(items, LAMBDA e : e \notin Texts
                                      /\ (name.t = "str" => payload[e] = name.s)),
          out)

\* _find_all that never looks at the limit
find_in_unlimited(h, name, text, limit, gen) ==
    IF text.t = "None" /\ limit = 0
    THEN find_tags(h, name, gen.res, gen.out)
    ELSE find_loop(h, SoupStrainer(name, FALSE, PyNone, text), 0, gen.res, 1,
                   gen.out, <<>>)

\* limit 0 is the limit None; attrs is empty in every search of these trees
find_in(h, name, text, limit, gen) ==
    IF text.t = "None" /\ limit = 0
    THEN find_tags(h, name, gen.res, gen.out)
    ELSE find_loop(h, SoupStrainer(name, FALSE, PyNone, text), limit, gen.res, 1,
                   gen.out, <<>>)

_find_all(h, method, self, name, text, limit) ==
    find_in(h, name, text, limit, generator(h, method, self))

\* l[0] without the test of l
first_of_unchecked(l) ==
    IF l.out # "ok" THEN l
    ELSE IF l.res = <<>> THEN Yield(<<>>, "IndexError")
    ELSE Yield(<<l.res[1]>>, "ok")

\* lines 528-533 and 503-506
first_of(l) ==
    IF l.out # "ok" THEN l
    ELSE IF l.res = <<>> THEN Yield(<<None>>, "ok")
    ELSE Yield(<<l.res[1]>>, "ok")

_find_one(h, method, self, name, text) ==
    first_of(_find_all(h, method, self, name, text, 1))

----------------------------------------------------------------------------
(* Tag.select                                                              *)

\* one token of a selector, as the branches of lines 1711-1809 read it: a
\* tag name ("tag"), name:nth-of-type(n) with a number n ("nth") or with
\* another argument ("nth-word"), name with another pseudo-class ("pseudo"),
\* "*", one of the combinators, or the empty string that split(',') leaves
\* of an empty alternative ("")
Token(kind, name, n) == [kind |-> kind, name |-> name, n |-> n]

_selector_combinators == {">", "+", "~"}

\* token_group in self._selector_combinators, for a group that split(',')
\* leaves whole
IsCombinator(group) == Len(group) = 1 /\ group[1].kind \in _selector_combinators

\* the recursive select of ">" over all descendants
candidate_generator_deep(h, kind, tag) ==
    IF kind = ">" THEN descendants(h, tag)
    ELSE IF kind = "~" THEN next_siblings(h, tag)
    ELSE _find_one(h, "find_next_siblings", tag, PyTrue, PyNone)

\* lines 1788-1802: what a combinator hands to the recursive select
candidate_generator(h, kind, tag) ==
    IF kind = ">" THEN Yield(h.contents[tag], "ok")
    ELSE IF kind = "~" THEN next_siblings(h, tag)
    ELSE _find_one(h, "find_next_siblings", tag, PyTrue, PyNone)

\* the new context and the count of the Counter after some candidates
Context(ctx, count, out) == [ctx |-> ctx, count |-> count, out |-> out]

\* the candidates of one tag without the test of new_context_ids
RECURSIVE select_candidates_again(_, _, _, _, _, _, _)
select_candidates_again(token, cands, k, out, ctx, count, limit) ==
    IF k > Len(cands) THEN Context(ctx, count, out)
    ELSE IF cands[k] = None \/ cands[k] \in Texts
    THEN select_candidates_again(token, cands, k + 1, out, ctx, count, limit)
    ELSE IF token.kind \in {"tag", "nth"} /\ payload[cands[k]] # token.name
    THEN select_candidates_again(token, cands, k + 1, out, ctx, count, limit)
    ELSE IF token.kind = "nth" /\ count + 1 > token.n
    THEN Context(ctx, count + 1, "ok")
    ELSE IF token.kind = "nth" /\ count + 1 < token.n
    THEN select_candidates_again(token, cands, k + 1, out, ctx, count + 1, limit)
    ELSE IF limit > 0 /\ Len(ctx) + 1 >= limit
    THEN Context(Append(ctx, cands[k]),
                 IF token.kind = "nth" THEN count + 1 ELSE count, "ok")
    ELSE select_candidates_again(token, cands, k + 1, out, Append(ctx, cands[k]),
                                 IF token.kind = "nth" THEN count + 1 ELSE count,
                                 limit)

\* lines 1864-1887: the candidates of one tag of the context; the Counter of
\* nth-of-type counts on from the tags before, and a candidate beyond its
\* destination or a context at the limit ends the loop
RECURSIVE select_candidates(_, _, _, _, _, _, _)
select_candidates(token, cands, k, out, ctx, count, limit) ==
    IF k > Len(cands) THEN Context(ctx, count, out)
    ELSE IF cands[k] = None \/ cands[k] \in Texts
    THEN select_candidates(token, cands, k + 1, out, ctx, count, limit)
    ELSE IF token.kind \in {"tag", "nth"} /\ payload[cands[k]] # token.name
    THEN select_candidates(token, cands, k + 1, out, ctx, count, limit)
    ELSE IF token.kind = "nth" /\ count + 1 > token.n
    THEN Context(ctx, count + 1, "ok")
    ELSE IF token.kind = "nth" /\ count + 1 < token.n
    THEN select_candidates(token, cands, k + 1, out, ctx, count + 1, limit)
    ELSE IF InSeq(ctx, cands[k])
    THEN select_candidates(token, cands, k + 1, out, ctx,
                           IF token.kind = "nth" THEN count + 1 ELSE count, limit)
    ELSE IF limit > 0 /\ Len(ctx) + 1 >= limit
    THEN Context(Append(ctx, cands[k]),
                 IF token.kind = "nth" THEN count + 1 ELSE count, "ok")
    ELSE select_candidates(token, cands, k + 1, out, Append(ctx, cands[k]),
                           IF token.kind = "nth" THEN count + 1 ELSE count, limit)

RECURSIVE select(_, _, _, _, _)
RECURSIVE select_tokens(_, _, _, _, _, _)
RECURSIVE select_group(_, _, _, _, _, _, _, _)
RECURSIVE select_context(_, _, _, _, _, _, _, _, _, _)

\* lines 1810-1857: the candidates that the token draws from a tag
candidates(h, tokens, idx, token, tag, gen) ==
    IF token.kind \in _selector_combinators
    THEN select(h, tag, <<tokens[idx + 1]>>, token.kind, 0)
    ELSE IF gen = "descendants" THEN descendants(h, tag)
    ELSE candidate_generator(h, gen, tag)

\* one tag of the context done; the recursive select has run to its end
\* before its first candidate, a generator runs as far as the loop takes it
select_next(h, tokens, idx, token, context, i, r, gen, limit) ==
    IF r.out # "ok" THEN r
    ELSE select_context(h, tokens, idx, token, context, i + 1, r.ctx, r.count,
                        gen, limit)

select_from(h, tokens, idx, token, context, i, cands, ctx, count, gen, limit) ==
    IF token.kind \in _selector_combinators /\ cands.out # "ok"
    THEN Context(ctx, count, cands.out)
    ELSE select_next(h, tokens, idx, token, context, i,
                     select_candidates(token, cands.res, 1, cands.out, ctx, count, limit),
                     gen, limit)

\* line 1860: for tag in current_context
select_context(h, tokens, idx, token, context, i, ctx, count, gen, limit) ==
    IF i > Len(context) THEN Context(ctx, count, "ok")
    ELSE select_from(h, tokens, idx, token, context, i,
                     candidates(h, tokens, idx, token, context[i], gen),
                     ctx, count, gen, limit)

\* lines 1744-1783: a pseudo-class needs a tag name, nth-of-type is the only
\* one, and its argument must be a number of at least 1
token_error(token) ==
    IF token.kind \notin {"nth", "nth-word", "pseudo"} THEN "ok"
    ELSE IF token.name = "" THEN "ValueError"
    ELSE IF token.kind \in {"nth-word", "pseudo"} THEN "NotImplementedError"
    ELSE IF token.n < 1 THEN "ValueError"
    ELSE "ok"

\* one token of the group done
select_group_next(h, tokens, idx, j, context, r, gen, limit) ==
    IF r.out # "ok" THEN r
    ELSE select_group(h, tokens, idx, j + 1, context, r.ctx, gen, limit)

\* line 1711: for token in grouped_tokens; each token has its own Counter
select_group(h, tokens, idx, j, context, ctx, gen, limit) ==
    IF j > Len(tokens[idx]) THEN Context(ctx, 0, "ok")
    ELSE IF token_error(tokens[idx][j]) # "ok"
    THEN Context(ctx, 0, token_error(tokens[idx][j]))
    ELSE IF tokens[idx][j].kind \in _selector_combinators /\ idx + 1 > Len(tokens)
    THEN Context(ctx, 0, "IndexError")
    ELSE select_group_next(h, tokens, idx, j, context,
                           select_context(h, tokens, idx, tokens[idx][j],
                                          context, 1, ctx, 0, gen, limit),
                           gen, limit)

\* line 1890: current_context = new_context
select_tokens_next(h, tokens, idx, r, gen, limit) ==
    IF r.out # "ok" THEN Yield(<<>>, r.out)
    ELSE select_tokens(h, tokens, idx + 1, r.ctx, gen, limit)

\* line 1696: for idx, token_group in enumerate(tokens); an empty
\* alternative is an error in every group, and the token after a combinator
\* was consumed by it
select_tokens(h, tokens, idx, context, gen, limit) ==
    IF idx > Len(tokens) THEN Yield(context, "ok")
    ELSE IF \E j \in 1..Len(tokens[idx]) : tokens[idx][j].kind = ""
    THEN Yield(<<>>, "ValueError")
    ELSE IF idx > 1 /\ IsCombinator(tokens[idx - 1])
    THEN select_tokens(h, tokens, idx + 1, context, gen, limit)
    ELSE select_tokens_next(h, tokens, idx,
                            select_group(h, tokens, idx, 1, context, <<>>, gen, limit),
                            gen, limit)

select(h, self, tokens, gen, limit) ==
    IF IsCombinator(tokens[Len(tokens)]) THEN Yield(<<>>, "ValueError")
    ELSE select_tokens(h, tokens, 1, <<self>>, gen, limit)

\* lines 1674-1679: value[0] of select(selector, limit=1), None for no value
select_one(h, self, tokens) == first_of(select(h, self, tokens, "descendants", 1))

----------------------------------------------------------------------------

NoLinks == [n \in Nodes |-> None]

\* every node as its constructor leaves it (setup() with no arguments)
Detached == [parent |-> NoLinks,
             contents |-> [n \in Nodes |-> <<>>],
             previous_sibling |-> NoLinks,
             next_sibling |-> NoLinks,
             previous_element |-> NoLinks,
             next_element |-> NoLinks]

MaxPos == 2
MaxCalls == 3

\* one call: its name, receiver, argument, position and outcome; clean says
\* that no call so far has raised or hung
Call(op, self, arg, pos, out, clean) ==
    [op |-> op, self |-> self, arg |-> arg, pos |-> pos, out |-> out,
     clean |-> clean, res |-> <<>>]

\* one query: what it returned or yielded before it ended is res
Answer(op, self, arg, r, clean) ==
    [op |-> op, self |-> self, arg |-> arg, pos |-> 0, out |-> r.out,
     clean |-> clean, res |-> r.res]

\* the caller between two calls
Idle(clean) == Call("idle", None, None, 0, "ok", clean)

\* the order in which names and strings are handed to the nodes: handles of
\* one kind are interchangeable, and so are the two names and the two
\* non-empty strings, so one payload of each kind of pattern is enough
Rank(v) == IF v \in {"a", ""} THEN 0 ELSE IF v \in {"b", "s"} THEN 1 ELSE 2

Init ==
    /\ doc = Detached
    /\ payload \in [Nodes -> TagNames \cup Strings]
    /\ \A n \in Tags : payload[n] \in TagNames
    /\ \A n \in Texts : payload[n] \in Strings
    /\ \A m \in Nodes, n \in Nodes :
           ((m \in Tags <=> n \in Tags) /\ m < n)
           => Rank(payload[m]) <= Rank(payload[n])
    /\ \A n \in Tags : payload[n] = "b" => \E m \in Tags : payload[m] = "a"
    /\ \A n \in Texts : payload[n] = "t" => \E m \in Texts : payload[m] = "s"
    /\ last = Idle(TRUE)
    /\ pre = Detached
    /\ before = Detached
    /\ calls = 0

RECURSIVE IsAncestor(_, _, _, _)
IsAncestor(h, a, n, fuel) ==
    IF h.parent[n] = None \/ fuel = 0 THEN FALSE
    ELSE h.parent[n] = a \/ IsAncestor(h, a, h.parent[n], fuel - 1)

\* doc becomes the links the call left, pre keeps the links it found, last
\* records the call
Record(r, op, self, arg, pos) ==
    /\ doc' = r.h
    /\ pre' = doc
    /\ last' = Call(op, self, arg, pos, r.out, last.clean /\ r.out = "ok")

\* building the tree: a detached node is appended to a tag outside its own
\* subtree, before the first of the calls that calls counts
Build(p, c) ==
    /\ last.op = "idle"
    /\ calls = 0
    /\ p \in Tags /\ p # c
    /\ doc.parent[c] = None
    /\ ~IsAncestor(doc, c, p, NumTags + NumTexts)
    /\ Record(append(doc, p, c), "build", p, c, Len(doc.contents[p]))
    /\ UNCHANGED <<payload, before, calls>>

\* one completed call of a mutation primitive
Completed(r, op, self, arg, pos) ==
    /\ last.op = "idle"
    /\ calls < MaxCalls
    /\ calls' = calls + 1
    /\ Record(r, op, self, arg, pos)
    /\ UNCHANGED <<payload, before>>

DoExtract(x) == Completed(extract(doc, x), "extract", x, None, 0)

DoInsert(p, pos, c) == Completed(insert(doc, p, pos, c), "insert", p, c, pos)

DoAppend(p, c) == Completed(append(doc, p, c), "append", p, c, Len(doc.contents[p]))

DoReplaceWith(x, n) == Completed(replace_with(doc, x, n), "replace_with", x, n, 0)

DoUnwrap(x) == Completed(unwrap(doc, x), "unwrap", x, None, 0)

DoWrap(x, c) == Completed(wrap(doc, x, c), "wrap", x, c, 0)

DoInsertBefore(x, o) == Completed(insert_before(doc, x, o), "insert_before", x, o, 0)

DoInsertAfter(x, o) == Completed(insert_after(doc, x, o), "insert_after", x, o, 0)

\* X.decompose(), the last call of a run: the caller has destroyed the
\* subtree and uses no node after it; res keeps the nodes that were cleared
DoDecompose(x) ==
    /\ x \in Tags
    /\ last.op = "idle"
    /\ calls < MaxCalls
    /\ calls' = MaxCalls
    /\ doc' = decompose(doc, x).h
    /\ pre' = doc
    /\ last' = Answer("decompose", x, None, decompose(doc, x), last.clean)
    /\ UNCHANGED <<payload, before>>

\* one query: the links stay and last records what it returned
Asked(r, op, self, arg) ==
    /\ last.op = "idle"
    /\ last' = Answer(op, self, arg, r, last.clean)
    /\ pre' = doc
    /\ UNCHANGED <<doc, payload, before, calls>>

DoDescendants(x) == x \in Tags /\ Asked(descendants(doc, x), "descendants", x, None)

\* the call has returned or raised and the caller goes on to its next call,
\* keeping the links and dropping its record of the call; a call that hangs
\* never gets here
Return ==
    /\ last.op # "idle"
    /\ last.out # "hang"
    /\ last' = Idle(last.clean)
    /\ pre' = doc
    /\ before' = Detached
    /\ UNCHANGED <<doc, payload, calls>>

Next ==
    \/ \E p \in Nodes, c \in Nodes : Build(p, c)
    \/ \E x \in Nodes : DoExtract(x)
    \/ \E p \in Nodes, pos \in 0..MaxPos, c \in Nodes : DoInsert(p, pos, c)
    \/ \E p \in Nodes, c \in Nodes : DoAppend(p, c)
    \/ \E x \in Nodes, n \in Nodes : DoReplaceWith(x, n)
    \/ \E x \in Nodes : DoUnwrap(x)
    \/ \E x \in Nodes, c \in Nodes : DoWrap(x, c)
    \/ \E x \in Nodes, o \in Nodes : DoInsertBefore(x, o)
    \/ \E x \in Nodes, o \in Nodes : DoInsertAfter(x, o)
    \/ \E x \in Nodes : DoDecompose(x)
    \/ \E x \in Nodes : DoDescendants(x)
    \/ Return

Spec == Init /\ [][Next]_vars

\* the second call of extract-then-insert: the node x just extracted goes
\* back to the parent P and index i it had; before keeps the links found by
\* the extract
Reinsert(P, i, x) ==
    /\ last.op = "extract" /\ last.out = "ok"
    /\ x = last.self
    /\ P = pre.parent[x]
    /\ i = index(pre, P, x)
    /\ before' = pre
    /\ Record(insert(doc, P, i, x), "reinsert", P, x, i)
    /\ UNCHANGED <<payload, calls>>

\* the second call of wrap-then-unwrap: the container c just wrapped around
\* the node x is unwrapped; before keeps the links found by the wrap
UnwrapContainer(c, x) ==
    /\ last.op = "wrap" /\ last.out = "ok"
    /\ c = last.arg
    /\ x = last.self
    /\ before' = pre
    /\ Record(unwrap(doc, c), "unwrap_container", c, x, 0)
    /\ UNCHANGED <<payload, calls>>

----------------------------------------------------------------------------
(* SoupStrainer.search_tag on its own: the strainers and the markup        *)

NameMatchers == {PyNone, PyTrue, Str("a"), Str("b")}
AttrStrings == {"", "x", "y", "x y"}
AttrMatchers == {PyNone, PyTrue} \cup {Str(s) : s \in AttrStrings}
TextMatchers == {PyNone, PyTrue, Str("s"), Str("st")}
AttrValues ==
    {PyNone} \cup {Str(s) : s \in AttrStrings}
        \cup {List(<<>>), List(<<"x">>), List(<<"x", "y">>)}
StringValues == {PyNone, Str("s"), Str("t")}

\* a strainer without the key in attrs, or with a matcher under it
Strainers ==
    {SoupStrainer(n, FALSE, PyNone, x) : n \in NameMatchers, x \in TextMatchers}
        \cup {SoupStrainer(n, TRUE, a, x) :
                  n \in NameMatchers, a \in AttrMatchers, x \in TextMatchers}

\* a Tag with its attribute value and .string, or a name and an attribute
\* value as the parser hands them to search_tag
Markups ==
    {Markup(TRUE, n, a, s) : n \in TagNames, a \in AttrValues, s \in StringValues}
        \cup {Markup(FALSE, n, a, PyNone) : n \in TagNames, a \in AttrValues}

\* a call about to be made
Pending(self, arg) ==
    [op |-> "pending", self |-> self, arg |-> arg, pos |-> 0, out |-> "ok",
     clean |-> TRUE, res |-> <<>>]

InitStrainer ==
    /\ doc = Detached
    /\ payload = [n \in Nodes |-> IF n \in Tags THEN "a" ELSE "s"]
    /\ last \in {Pending(s, m) : s \in Strainers, m \in Markups}
    /\ pre = Detached
    /\ before = Detached
    /\ calls = 0

Searched(r) == Yield(<<r.found>>, r.out)

DoSearchTag ==
    /\ last.op = "pending"
    /\ last' = Answer("search_tag", last.self, last.arg,
                      Searched(search_tag(last.self, last.arg)), TRUE)
    /\ UNCHANGED <<doc, payload, pre, before, calls>>

NextStrainer == DoSearchTag

SpecStrainer == InitStrainer /\ [][NextStrainer]_vars

----------------------------------------------------------------------------
(* The queries, on the trees a parse builds                                *)

\* the receiver of the queries and the root of the parse
Root == 1

\* the open elements of the parse: the root and the last child of each
RECURSIVE OpenElements(_, _, _)
OpenElements(h, n, fuel) ==
    IF n \in Texts THEN {}
    ELSE IF h.contents[n] = <<>> \/ fuel = 0 THEN {n}
    ELSE {n} \cup OpenElements(h, h.contents[n][Len(h.contents[n])], fuel - 1)

\* the parse appends the next node of the document to an open element; the
\* nodes of one kind come in the order of their handles
Parse(U, p, c) ==
    /\ last.op = "idle"
    /\ c \in U \ {Root}
    /\ doc.parent[c] = None
    /\ \A d \in U \ {Root} :
           (d < c /\ (d \in Texts <=> c \in Texts)) => doc.parent[d] # None
    /\ p \in OpenElements(doc, Root, NumTags + NumTexts + NumMoreTags)
    /\ doc' = append(doc, p, c).h
    /\ UNCHANGED <<payload, last, pre, before, calls>>

\* a query returns: last records what it returned
Queried(r, op, self, arg) ==
    /\ last.op = "idle"
    /\ last' = Answer(op, self, arg, r, TRUE)
    /\ UNCHANGED <<doc, payload, pre, before, calls>>

\* the caller goes on to its next query
Resume ==
    /\ last.op \notin {"idle", "pending"}
    /\ last' = Idle(TRUE)
    /\ UNCHANGED <<doc, payload, pre, before, calls>>

MaxLimit == 2

\* name, text and limit of a query; limit 0 is the limit None
Criteria(name, text, limit) == [name |-> name, text |-> text, limit |-> limit]

Methods ==
    {"find_all", "find_all_next", "find_all_previous",
     "find_next_siblings", "find_previous_siblings", "find_parents"}

\* the name and text criteria of the queries
FindNames == {PyNone, PyTrue, Str("a")}
FindTexts == {PyNone, PyTrue, Str("s")}

\* the multi-result query that each single-result query calls with limit 1
Multi(single) ==
    IF single = "find" THEN "find_all"
    ELSE IF single = "find_next" THEN "find_all_next"
    ELSE IF single = "find_previous" THEN "find_all_previous"
    ELSE IF single = "find_next_sibling" THEN "find_next_siblings"
    ELSE IF single = "find_previous_sibling" THEN "find_previous_siblings"
    ELSE "find_parents"

Singles ==
    {"find", "find_next", "find_previous", "find_next_sibling",
     "find_previous_sibling", "find_parent"}

\* find_all and find are methods of Tag; find_parents and find_parent take
\* no text
Callable(method, x, text) ==
    /\ method = "find_all" => x \notin Texts
    /\ method = "find_parents" => text = PyNone

DoFindAll(method, x, name, text, limit) ==
    /\ Callable(method, x, text)
    /\ Queried(_find_all(doc, method, x, name, text, limit), method, x,
               Criteria(name, text, limit))

DoFind(single, x, name, text) ==
    /\ Callable(Multi(single), x, text)
    /\ Queried(_find_one(doc, Multi(single), x, name, text), single, x,
               Criteria(name, text, 1))

\* search_tag on a tag of the tree
DoSearchTagOf(x, name, text) ==
    /\ x \notin Texts
    /\ Queried(Searched(search_tag(SoupStrainer(name, FALSE, PyNone, text),
                                   MarkupOf(doc, x))),
               "search_tag", x, Criteria(name, text, 0))

\* the root is an "a"; an empty string, if there is one, is the first text
\* of the document, and the first text is not a "t"
InitFind ==
    /\ doc = Detached
    /\ payload \in [Nodes -> TagNames \cup Strings]
    /\ payload[Root] = "a"
    /\ \A n \in Tags : payload[n] \in TagNames
    /\ \A n \in Texts : payload[n] \in Strings
    /\ \A n \in Texts : payload[n] = "t" => n # NumTags + 1
    /\ \A n \in Texts : payload[n] = "" => n = NumTags + 1
    /\ last = Idle(TRUE)
    /\ pre = Detached
    /\ before = Detached
    /\ calls = 0

NextFind ==
    \/ \E p \in Nodes, c \in Nodes : Parse(Nodes, p, c)
    \/ \E method \in Methods, x \in Nodes, name \in FindNames,
          text \in FindTexts, limit \in 0..MaxLimit :
           DoFindAll(method, x, name, text, limit)
    \/ \E single \in Singles, x \in Nodes, name \in FindNames,
          text \in FindTexts : DoFind(single, x, name, text)
    \/ \E x \in Nodes, name \in NameMatchers, text \in TextMatchers :
           DoSearchTagOf(x, name, text)
    \/ Resume

SpecFind == InitFind /\ [][NextFind]_vars

----------------------------------------------------------------------------
(* Tag.select, on parsed trees of tags                                     *)

Elements == Tags \cup MoreTags

DetachedElements ==
    [parent |-> [n \in Elements |-> None],
     contents |-> [n \in Elements |-> <<>>],
     previous_sibling |-> [n \in Elements |-> None],
     next_sibling |-> [n \in Elements |-> None],
     previous_element |-> [n \in Elements |-> None],
     next_element |-> [n \in Elements |-> None]]

Name(n) == Token("tag", n, 0)
Nth(name, n) == Token("nth", name, n)
Combinator(kind) == Token(kind, "", 0)

\* the selectors as select splits them: "a", "b", "*", "a b", "a > b",
\* "a ~ b", "a + b", "a,b", "a b,a", "a b:nth-of-type(2)",
\* "a > b:nth-of-type(2)" and "a,*"
SelDescendant == <<<<Name("a")>>, <<Name("b")>>>>
SelChild == <<<<Name("a")>>, <<Combinator(">")>>, <<Name("b")>>>>
SelGroup == <<<<Name("a"), Name("b")>>>>
SelNth == <<<<Name("a")>>, <<Nth("b", 2)>>>>
SelEither == <<<<Name("a"), Token("*", "", 0)>>>>
Selectors ==
    {<<<<Name("a")>>>>, <<<<Name("b")>>>>, <<<<Token("*", "", 0)>>>>,
     SelDescendant, SelChild, SelGroup, SelNth,
     <<<<Name("a")>>, <<Combinator("~")>>, <<Name("b")>>>>,
     <<<<Name("a")>>, <<Combinator("+")>>, <<Name("b")>>>>,
     <<<<Name("a")>>, <<Name("b"), Name("a")>>>>,
     <<<<Name("a")>>, <<Combinator(">")>>, <<Nth("b", 2)>>>>, SelEither}

\* selectors with an offending token, behind a name and behind a combinator:
\* "a b:foo", "a > b:foo", "a b:nth-of-type(x)", "a ~ b:nth-of-type(x)",
\* "a b:nth-of-type(0)", "a + b:nth-of-type(0)", "a b,", "a > b," and "a >"
Offending ==
    {Token("pseudo", "b", 0), Token("nth-word", "b", 0), Nth("b", 0)}

BadSelectors ==
    {<<<<Name("a")>>, <<o>>>> : o \in Offending}
    \cup {<<<<Name("a")>>, <<Combinator(c)>>, <<o>>>> :
              c \in _selector_combinators, o \in Offending}
    \cup {<<<<Name("a")>>, <<Name("b"), Token("", "", 0)>>>>,
          <<<<Name("a")>>, <<Combinator(">")>>, <<Name("b"), Token("", "", 0)>>>>,
          <<<<Name("a")>>, <<Combinator(">")>>>>}

Selection(selector, limit) == [selector |-> selector, limit |-> limit]

DoSelect(x, selector, limit) ==
    Queried(select(doc, x, selector, "descendants", limit), "select", x,
            Selection(selector, limit))

DoSelectOne(x, selector) ==
    Queried(select_one(doc, x, selector), "select_one", x, Selection(selector, 1))

InitSelect ==
    /\ doc = DetachedElements
    /\ payload \in [Elements -> TagNames]
    /\ payload[Root] = "a"
    /\ last = Idle(TRUE)
    /\ pre = Detached
    /\ before = Detached
    /\ calls = 0

NextSelect ==
    \/ \E p \in Elements, c \in Elements : Parse(Elements, p, c)
    \/ \E x \in Elements, selector \in Selectors, limit \in 0..MaxLimit :
           DoSelect(x, selector, limit)
    \/ \E x \in Elements, selector \in BadSelectors : DoSelect(x, selector, 0)
    \/ \E x \in Elements, selector \in Selectors : DoSelectOne(x, selector)
    \/ Resume

SpecSelect == InitSelect /\ [][NextSelect]_vars

NextRoundTrip ==
    \/ Next
    \/ \E P \in Tags, i \in 0..(NumTags + NumTexts), x \in Nodes : Reinsert(P, i, x)
    \/ \E c \in Nodes, x \in Nodes : UnwrapContainer(c, x)

SpecRoundTrip == Init /\ [][NextRoundTrip]_vars

----------------------------------------------------------------------------
(* The two orderings, stated from contents                                 *)

NumNodes == NumTags + NumTexts

\* the subtree of n in pre-order, read off contents
RECURSIVE PreOrder(_, _, _)
RECURSIVE PreOrderOfList(_, _, _)
PreOrder(h, n, fuel) ==
    IF fuel = 0 THEN <<n>>
    ELSE <<n>> \o PreOrderOfList(h, h.contents[n], fuel - 1)

PreOrderOfList(h, s, fuel) ==
    IF s = <<>> THEN <<>>
    ELSE PreOrder(h, Head(s), fuel) \o PreOrderOfList(h, Tail(s), fuel)

NoCycle(h) == \A n \in Nodes : ~IsAncestor(h, n, n, NumNodes)

\* every member of a contents list has that parent, and no node is listed twice
Owned(h) ==
    /\ \A p \in Nodes : \A i \in 1..Len(h.contents[p]) :
           h.parent[h.contents[p][i]] = p
    /\ \A x \in Nodes : h.parent[x] # None =>
           Cardinality({i \in 1..Len(h.contents[h.parent[x]]) :
                           h.contents[h.parent[x]][i] = x}) = 1

\* from each root, next_element walks the tree in pre-order and
\* previous_element walks it back
DocumentOrder(h) ==
    /\ NoCycle(h)
    /\ Owned(h)
    /\ \A r \in Nodes : h.parent[r] = None =>
           LET s == PreOrder(h, r, NumNodes)
           IN /\ h.previous_element[s[1]] = None
              /\ h.next_element[s[Len(s)]] = None
              /\ \A i \in 1..(Len(s) - 1) :
                     /\ h.next_element[s[i]] = s[i + 1]
                     /\ h.previous_element[s[i + 1]] = s[i]

\* each child's sibling links name its neighbours in contents
SiblingOrder(h) ==
    /\ Owned(h)
    /\ \A x \in Nodes : h.parent[x] # None =>
           LET c == h.contents[h.parent[x]]
               i == index(h, h.parent[x], x) + 1
           IN /\ h.previous_sibling[x] = (IF i = 1 THEN None ELSE c[i - 1])
              /\ h.next_sibling[x] = (IF i = Len(c) THEN None ELSE c[i + 1])

WellFormed(h) == DocumentOrder(h) /\ SiblingOrder(h)

\* C1: a call of insert, append, extract, replace_with, wrap or unwrap that
\* returns without error in a well-formed tree, its argument no ancestor of
\* its receiver, leaves next_element walking every tree in pre-order and
\* previous_element walking it in reverse; so does then any sequence of such
\* calls.
C1_DocumentOrderKept ==
    (last.op \in {"insert", "append", "extract", "replace_with", "wrap", "unwrap"}
       /\ last.out = "ok" /\ WellFormed(pre)
       /\ (last.arg = None \/ ~IsAncestor(pre, last.arg, last.self, NumNodes)))
    => DocumentOrder(doc)

\* C2: a call of insert, append, extract, replace_with, wrap, unwrap,
\* insert_before or insert_after that returns without error in a well-formed
\* tree leaves every child exactly once in its parent's contents, at the index
\* its previous_sibling and next_sibling agree with, and every member of a
\* contents list with that parent; so does then any sequence of such calls.
C2_SiblingOrderKept ==
    (last.op \in {"insert", "append", "extract", "replace_with", "wrap", "unwrap",
                  "insert_before", "insert_after"}
       /\ last.out = "ok" /\ WellFormed(pre))
    => SiblingOrder(doc)

\* C3: a call of insert, replace_with, unwrap, wrap, insert_before or
\* insert_after that ends with ValueError, made in a well-formed tree, has
\* changed no link.
C3_RejectedBeforeMutation ==
    (last.out = "ValueError"
       /\ last.op \in {"insert", "replace_with", "unwrap", "wrap",
                       "insert_before", "insert_after"}
       /\ WellFormed(pre))
    => doc = pre

\* C4: X.extract() followed by P.insert(i, X), for X attached at index i of
\* P in a tree reached by calls that all returned without error, leaves every
\* next_element and previous_element link as the extract found it.
C4_ExtractInsertRoundTrip ==
    (last.op = "reinsert" /\ last.clean /\ NoCycle(before))
    => /\ doc.next_element = before.next_element
       /\ doc.previous_element = before.previous_element

\* C5: X.wrap(C) followed by C.unwrap(), for X attached at index i of P and C
\* detached, childless and not X, leaves X at index i of P, P.contents as the
\* wrap found it, and C detached without children; in a well-formed tree both
\* calls return without error when C is a tag.
C5_WrapUnwrapRoundTrip ==
    LET X == last.arg
        C == last.self
        P == before.parent[X]
    IN (last.op = "unwrap_container"
          /\ P # None /\ C # X
          /\ before.parent[C] = None /\ before.contents[C] = <<>>)
       => /\ WellFormed(before) => last.out = "ok"
          /\ last.out = "ok"
             => /\ doc.parent[X] = P
                /\ index(doc, P, X) = index(before, P, X)
                /\ doc.contents[P] = before.contents[P]
                /\ doc.parent[C] = None
                /\ doc.contents[C] = <<>>

\* X was the first of several children and comes back to the front
C5_Witness ==
    LET X == last.arg
        C == last.self
        P == before.parent[X]
    IN /\ last.op = "unwrap_container" /\ last.out = "ok"
       /\ P # None /\ C # X
       /\ before.parent[C] = None /\ before.contents[C] = <<>>
       /\ Len(before.contents[P]) >= 2
       /\ index(before, P, X) = 0
       /\ doc.contents[P] = before.contents[P]

Remove(s, v) == SelectSeq(s, LAMBDA e : e # v)

Replace(s, x, n) == [i \in 1..Len(s) |-> IF s[i] = x THEN n ELSE s[i]]

Splice(s, i, t) == SubSeq(s, 1, i - 1) \o t \o SubSeq(s, i + 1, Len(s))

Subtree(h, x) ==
    LET s == PreOrder(h, x, NumNodes) IN {s[i] : i \in 1..Len(s)}

InContents(h, p, x) == \E i \in 1..Len(h.contents[p]) : h.contents[p][i] = x

\* C6: P.insert(pos, C) with C not P places C at index t = min(pos, len) of
\* P.contents, at t - 1 when C was a child of P below t; the other children
\* of P keep their order and no other contents list holds C.
C6_InsertPlacement ==
    LET P == last.self
        C == last.arg
        t == Min(last.pos, Len(pre.contents[P]))
        below == pre.parent[C] = P /\ index(pre, P, C) >= 0 /\ index(pre, P, C) < t
    IN (last.op = "insert" /\ last.out = "ok")
       => /\ index(doc, P, C) = (IF below THEN t - 1 ELSE t)
          /\ Remove(doc.contents[P], C) = Remove(pre.contents[P], C)
          /\ \A Q \in Nodes \ {P} : ~InContents(doc, Q, C)

\* C was the first of three children and moves down by the decremented index
C6_Witness ==
    LET P == last.self
        C == last.arg
    IN /\ last.op = "insert" /\ last.out = "ok"
       /\ pre.parent[C] = P
       /\ Len(pre.contents[P]) >= 3
       /\ index(pre, P, C) = 0
       /\ last.pos = 2
       /\ index(doc, P, C) = 1

\* C7: X.replace_with(N), for X attached to P and N neither X nor an ancestor
\* of X, leaves P.contents as it was with N removed and X replaced by N, and
\* X detached, without siblings, with its subtree as it was; stated for N
\* outside X's subtree, in a tree without a cycle reached by calls that all
\* returned without error.
C7_ReplaceWith ==
    LET X == last.self
        N == last.arg
        P == pre.parent[X]
    IN (last.op = "replace_with" /\ last.out = "ok" /\ P # None /\ N # X
          /\ ~IsAncestor(pre, N, X, NumNodes)
          /\ ~IsAncestor(pre, X, N, NumNodes)
          /\ last.clean /\ NoCycle(pre) /\ Owned(pre))
       => /\ doc.contents[P] = Replace(Remove(pre.contents[P], N), X, N)
          /\ doc.parent[X] = None
          /\ doc.previous_sibling[X] = None /\ doc.next_sibling[X] = None
          /\ \A d \in Subtree(pre, X) :
                 /\ doc.contents[d] = pre.contents[d]
                 /\ d # X => doc.parent[d] = pre.parent[d]

\* C8 as claimed: X.replace_with(N) raises ValueError when X has no parent,
\* when N is X, and when N is X's parent.
C8_AsClaimed ==
    (last.op = "replace_with"
       /\ (pre.parent[last.self] = None \/ last.arg = last.self
           \/ last.arg = pre.parent[last.self]))
    => last.out = "ValueError"

\* C8 (amended): X.replace_with(N) raises ValueError, changing no link, when
\* X has no parent and when N is X's parent; when N is X itself and X has a
\* parent the call returns without error and changes no link.
C8_ReplaceWithRejects ==
    LET X == last.self
        N == last.arg
        P == pre.parent[X]
    IN last.op = "replace_with"
       => /\ (P = None \/ (N = P /\ N # X)) => (last.out = "ValueError" /\ doc = pre)
          /\ (P # None /\ N = X) => (last.out = "ok" /\ doc = pre)

\* an attached node was replaced with itself
C8_Witness ==
    /\ last.op = "replace_with"
    /\ last.arg = last.self
    /\ pre.parent[last.self] # None
    /\ Len(pre.contents[pre.parent[last.self]]) >= 2
    /\ last.out = "ok"

\* C9: X.unwrap() raises ValueError when X has no parent; for a tag X at
\* index i of P the call returns without error in a well-formed tree, and a
\* call that returns leaves P.contents as it was with X replaced by X's
\* children in order, each child with parent P, and X detached, without
\* siblings or children.
C9_Unwrap ==
    LET X == last.self
        P == pre.parent[X]
    IN last.op = "unwrap"
       => /\ P = None => (last.out = "ValueError" /\ doc = pre)
          /\ (P # None /\ X \in Tags /\ WellFormed(pre)) => last.out = "ok"
          /\ (P # None /\ last.out = "ok")
             => /\ doc.contents[P] =
                       Splice(pre.contents[P], index(pre, P, X) + 1, pre.contents[X])
                /\ \A k \in 1..Len(pre.contents[X]) :
                       doc.parent[pre.contents[X][k]] = P
                /\ doc.parent[X] = None
                /\ doc.previous_sibling[X] = None /\ doc.next_sibling[X] = None
                /\ doc.contents[X] = <<>>

\* two children took the place of X
C9_Witness ==
    LET X == last.self
        P == pre.parent[X]
    IN /\ last.op = "unwrap" /\ last.out = "ok"
       /\ P # None
       /\ Len(pre.contents[X]) = 2
       /\ doc.contents[P] = pre.contents[X]

\* C10 as claimed: X.wrap(C), for X at index i of P and C not X, not P and no
\* ancestor of X, leaves C at index i of P.contents and X the only child of C.
C10_AsClaimed ==
    LET X == last.self
        C == last.arg
        P == pre.parent[X]
    IN (last.op = "wrap" /\ last.out = "ok" /\ P # None /\ C # X /\ C # P
          /\ ~IsAncestor(pre, C, X, NumNodes))
       => /\ index(doc, P, C) = index(pre, P, X)
          /\ doc.parent[X] = C
          /\ doc.contents[C] = <<X>>

\* C10 (amended): X.wrap(C), for X at index i of P and C not X, not P and no
\* ancestor of X, leaves C in P.contents at index i, or at i - 1 when C was a
\* child of P before X; X has parent C and is the last child of C, after the
\* children C already had: its only child when C was childless.
C10_Wrap ==
    LET X == last.self
        C == last.arg
        P == pre.parent[X]
        i == index(pre, P, X)
        earlier == pre.parent[C] = P /\ index(pre, P, C) >= 0 /\ index(pre, P, C) < i
    IN (last.op = "wrap" /\ last.out = "ok" /\ P # None /\ C # X /\ C # P
          /\ ~IsAncestor(pre, C, X, NumNodes))
       => /\ index(doc, P, C) = (IF earlier THEN i - 1 ELSE i)
          /\ doc.parent[X] = C
          /\ doc.contents[C] = pre.contents[C] \o <<X>>

\* C was an earlier sibling of X and had a child of its own
C10_Witness ==
    LET X == last.self
        C == last.arg
        P == pre.parent[X]
    IN /\ last.op = "wrap" /\ last.out = "ok"
       /\ P # None /\ C # X /\ C # P
       /\ pre.parent[C] = P
       /\ index(pre, P, C) < index(pre, P, X)
       /\ Len(pre.contents[C]) = 1
       /\ Len(doc.contents[C]) = 2

\* C11: X.insert_before(O) and X.insert_after(O) raise ValueError when X has
\* no parent or O is X; otherwise, for O no ancestor of X, the call returns
\* without error in a well-formed tree, and a call that returns leaves O with
\* X's parent, O.next_sibling = X after insert_before and
\* O.previous_sibling = X after insert_after, and the other children of that
\* parent in their order.
C11_InsertBeside ==
    LET X == last.self
        O == last.arg
        P == pre.parent[X]
    IN last.op \in {"insert_before", "insert_after"}
       => /\ (P = None \/ O = X) => last.out = "ValueError"
          /\ (P # None /\ O # X /\ ~IsAncestor(pre, O, X, NumNodes))
             => /\ WellFormed(pre) => last.out = "ok"
                /\ last.out = "ok"
                   => /\ doc.parent[O] = P
                      /\ last.op = "insert_before" => doc.next_sibling[O] = X
                      /\ last.op = "insert_after" => doc.previous_sibling[O] = X
                      /\ Remove(doc.contents[P], O) = Remove(pre.contents[P], O)

\* O was the sibling before X among three children and moves behind X
C11_Witness ==
    LET X == last.self
        O == last.arg
        P == pre.parent[X]
    IN /\ last.op = "insert_after" /\ last.out = "ok"
       /\ P # None /\ pre.parent[O] = P
       /\ Len(pre.contents[P]) >= 3
       /\ index(pre, P, O) < index(pre, P, X)
       /\ doc.previous_sibling[O] = X
       /\ index(doc, P, O) = index(doc, P, X) + 1

\* C12: in a tree without a cycle reached by calls that all returned without
\* error, X.descendants ends without error and yields the nodes of X's
\* subtree other than X, each once, in pre-order.
C12_Descendants ==
    (last.op = "descendants" /\ last.clean /\ NoCycle(doc))
    => /\ last.out = "ok"
       /\ last.res = Tail(PreOrder(doc, last.self, NumNodes))

\* C13: X.decompose(), called in a tree without a cycle reached by calls that
\* all returned without error, returns without error, clears exactly the
\* nodes of X's subtree, leaves the other nodes in the contents lists as
\* extract does, and leaves the remaining nodes with the sibling order and
\* the document order and with no link to a cleared node.
C13_Decompose ==
    LET X == last.self
        gone == {last.res[k] : k \in 1..Len(last.res)}
    IN (last.op = "decompose" /\ last.clean /\ NoCycle(pre))
       => /\ last.out = "ok"
          /\ gone = Subtree(pre, X)
          /\ \A n \in Nodes \ gone :
                 /\ doc.contents[n] = Remove(pre.contents[n], X)
                 /\ doc.parent[n] \notin gone
                 /\ doc.previous_sibling[n] \notin gone
                 /\ doc.next_sibling[n] \notin gone
                 /\ doc.previous_element[n] \notin gone
                 /\ doc.next_element[n] \notin gone
          /\ WellFormed(doc)

\* C16 as claimed: a strainer whose name matcher is None and whose attribute
\* matcher is None, without a text matcher, accepts every markup, whether
\* its attribute is missing, a string or a list.
C16_AsClaimed ==
    (last.op = "search_tag" /\ last.self.name = PyNone
       /\ last.self.has_attr /\ last.self.attr = PyNone
       /\ last.self.text = PyNone)
    => last.res = <<TRUE>>

\* C16 (amended): a name matcher that is None accepts every name; an
\* attribute matcher that is None accepts the markup exactly when the
\* attribute is missing, and rejects every string and every list.
C16_NoneMatcher ==
    (last.op = "search_tag" /\ last.self.name = PyNone
       /\ last.self.text = PyNone)
    => /\ last.out = "ok"
       /\ ~last.self.has_attr => last.res = <<TRUE>>
       /\ (last.self.has_attr /\ last.self.attr = PyNone)
          => last.res = <<last.arg.attr_value = PyNone>>

\* the attribute is a list of two values and the matcher None rejects it
C16_Witness ==
    /\ last.op = "search_tag" /\ last.self.name = PyNone
    /\ last.self.text = PyNone
    /\ last.self.has_attr /\ last.self.attr = PyNone
    /\ last.arg.attr_value = List(<<"x", "y">>)
    /\ last.res = <<FALSE>>

\* the items of a traversal that a search with these criteria returns
Matching(h, items, c) ==
    SelectSeq(items, LAMBDA i : Truthy(i)
                  /\ search(SoupStrainer(c.name, FALSE, PyNone, c.text), h, i))

\* C14: a multi-result query with limit n > 0 returns the first min(n, m)
\* of the m matching items of its traversal, in the order of the traversal;
\* with the limit None or 0 it returns all m of them in that order.
C14_FindAllLimit ==
    LET m == Matching(doc, generator(doc, last.op, last.self).res, last.arg)
        n == last.arg.limit
    IN last.op \in Methods
       => /\ last.out = "ok"
          /\ last.res = (IF n > 0 THEN SubSeq(m, 1, Min(n, Len(m))) ELSE m)

\* two items match and the limit 1 keeps the first
C14_Witness ==
    LET m == Matching(doc, generator(doc, last.op, last.self).res, last.arg)
    IN /\ last.op \in Methods
       /\ last.arg.limit = 1
       /\ Len(m) = 2
       /\ last.res = <<m[1]>>

\* C15: a single-result query returns None, without error, when the
\* multi-result query with the same criteria and no limit returns nothing,
\* and the first item of that result otherwise.
C15_FindOne ==
    LET all == _find_all(doc, Multi(last.op), last.self, last.arg.name,
                         last.arg.text, 0)
    IN last.op \in Singles
       => /\ last.out = "ok"
          /\ all.res = <<>> => last.res = <<None>>
          /\ all.res # <<>> => last.res = <<all.res[1]>>

\* the multi-result query has two items and the first is returned
C15_Witness ==
    LET all == _find_all(doc, Multi(last.op), last.self, last.arg.name,
                         last.arg.text, 0)
    IN /\ last.op \in Singles
       /\ Len(all.res) = 2
       /\ last.res = <<all.res[1]>>

\* the text of the text nodes of a sequence of nodes, concatenated
RECURSIVE Concat(_)
Concat(s) ==
    IF s = <<>> THEN ""
    ELSE IF Head(s) \in Texts THEN payload[Head(s)] \o Concat(Tail(s))
    ELSE Concat(Tail(s))

\* the text descendants of x, in document order
TextsOf(h, x) == SelectSeq(Tail(PreOrder(h, x, NumNodes)), LAMBDA n : n \in Texts)

\* the name criterion of the search holds of x
NamePasses(c, x) == ~TruthyValue(c.name) \/ _matches(Str(payload[x]), c.name)

\* C17 as claimed: search_tag with a text matcher accepts a tag that passes
\* the name criterion exactly when the concatenation of the tag's descendant
\* text matches the text matcher.
C17_AsClaimed ==
    (last.op = "search_tag" /\ TruthyValue(last.arg.text)
       /\ NamePasses(last.arg, last.self))
    => last.res = <<_matches(Str(Concat(TextsOf(doc, last.self))), last.arg.text)>>

\* C17 (amended): search_tag with a text matcher accepts a tag that passes
\* the name criterion exactly when the tag's subtree is a chain of only
\* children that ends in a text node and that text matches the text matcher;
\* a tag without children or with several children is rejected.
C17_SearchTagText ==
    LET s == PreOrder(doc, last.self, NumNodes)
        chain == /\ s[Len(s)] \in Texts
                 /\ \A k \in 1..(Len(s) - 1) : doc.contents[s[k]] = <<s[k + 1]>>
    IN (last.op = "search_tag" /\ TruthyValue(last.arg.text)
          /\ NamePasses(last.arg, last.self))
       => /\ last.out = "ok"
          /\ last.res = <<chain /\ _matches(Str(payload[s[Len(s)]]), last.arg.text)>>

\* the tag has the two text children "s" and "t" and the matcher "st"
\* rejects it
C17_Witness ==
    /\ last.op = "search_tag"
    /\ last.arg.text = Str("st")
    /\ NamePasses(last.arg, last.self)
    /\ Len(TextsOf(doc, last.self)) = 2
    /\ Concat(TextsOf(doc, last.self)) = "st"
    /\ last.res = <<FALSE>>

NumElements == NumTags + NumMoreTags

ToSet(s) == {s[k] : k \in 1..Len(s)}

\* C18: select("a > b") without a limit returns, each once, the elements
\* named b whose parent is named a and is a descendant of the receiver.
C18_ChildCombinator ==
    (last.op = "select" /\ last.arg.selector = SelChild /\ last.arg.limit = 0)
    => /\ last.out = "ok"
       /\ ToSet(last.res) =
              {e \in Elements :
                  /\ payload[e] = "b"
                  /\ doc.parent[e] # None
                  /\ payload[doc.parent[e]] = "a"
                  /\ IsAncestor(doc, last.self, doc.parent[e], NumElements)}
       /\ Len(last.res) = Cardinality(ToSet(last.res))

\* a b under a b under an a is left out and the b above it is returned
C18_Witness ==
    /\ last.op = "select" /\ last.arg.selector = SelChild /\ last.arg.limit = 0
    /\ last.out = "ok"
    /\ \E e \in Elements :
           /\ payload[e] = "b"
           /\ doc.parent[e] # None /\ payload[doc.parent[e]] = "b"
           /\ doc.parent[doc.parent[e]] # None
           /\ payload[doc.parent[doc.parent[e]]] = "a"
           /\ doc.parent[doc.parent[e]] # last.self
           /\ IsAncestor(doc, last.self, e, NumElements)
           /\ last.res = <<doc.parent[e]>>

\* under the receiver the tags named a are its children, and the tags named
\* b are the childless children of those
ListShaped(h, x) ==
    \A d \in Elements : IsAncestor(h, x, d, NumElements) =>
        /\ payload[d] = "a" => h.parent[d] = x
        /\ payload[d] = "b" => (h.parent[d] # x /\ h.contents[d] = <<>>)

\* the tags named b among the children of p, in order
NamedB(h, p) == SelectSeq(h.contents[p], LAMBDA c : payload[c] = "b")

\* C19: select("a b:nth-of-type(2)") returns only elements that are the
\* second b among the children of their parent, and nothing when no a has
\* two children named b.
C19_NthOfType ==
    (last.op = "select" /\ last.arg.selector = SelNth /\ last.arg.limit = 0
       /\ ListShaped(doc, last.self))
    => /\ last.out = "ok"
       /\ \A k \in 1..Len(last.res) :
              /\ Len(NamedB(doc, doc.parent[last.res[k]])) >= 2
              /\ NamedB(doc, doc.parent[last.res[k]])[2] = last.res[k]
       /\ (\A e \in Elements :
               (payload[e] = "a" /\ IsAncestor(doc, last.self, e, NumElements))
               => Len(NamedB(doc, e)) < 2)
          => last.res = <<>>

\* C20: select with a limit n >= 1 returns at most n elements.
C20_Limit ==
    (last.op = "select" /\ last.arg.limit >= 1 /\ last.out = "ok")
    => Len(last.res) <= last.arg.limit

\* the calls that change links
Mutations ==
    {"insert", "append", "extract", "replace_with", "wrap", "unwrap",
     "insert_before", "insert_after"}

\* C24: every call of insert, append, extract, replace_with, wrap, unwrap,
\* insert_before or insert_after made in a well-formed tree returns or
\* raises, whatever its receiver and argument.
C24_Terminates ==
    (last.op \in Mutations /\ WellFormed(pre)) => last.out # "hang"

\* no node is listed in the contents of itself or of one of its descendants
NoContentsCycle(h) ==
    \A n \in Nodes : ~InSeq(PreOrderOfList(h, h.contents[n], NumNodes), n)

\* C27: a call of insert, append, replace_with, wrap, insert_before or
\* insert_after that returns or raises, made in a well-formed tree with any
\* nodes as receiver and argument, leaves no node its own ancestor, by parent
\* links or by contents; so does then any sequence of such calls.
C27_NoOwnAncestor ==
    (last.op \in {"insert", "append", "replace_with", "wrap", "insert_before",
                  "insert_after"}
       /\ last.out # "hang" /\ WellFormed(pre))
    => NoCycle(doc) /\ NoContentsCycle(doc)

\* the last node of n's subtree in document order, read off contents
LastOfSubtree(h, n) == PreOrder(h, n, NumNodes)[Len(PreOrder(h, n, NumNodes))]

\* C25: X.extract(), for X attached in a well-formed tree, gives X's
\* document-order predecessor the successor of X's last descendant as
\* next_element and that successor the predecessor as previous_element,
\* makes X's former siblings point to each other, and takes X out of its
\* former parent's contents.
C25_ExtractHeals ==
    LET X == last.self
        P == pre.parent[X]
        before_x == pre.previous_element[X]
        after_x == pre.next_element[LastOfSubtree(pre, X)]
        ps == pre.previous_sibling[X]
        ns == pre.next_sibling[X]
    IN (last.op = "extract" /\ WellFormed(pre) /\ P # None)
       => /\ last.out = "ok"
          /\ doc.next_element[before_x] = after_x
          /\ after_x # None => doc.previous_element[after_x] = before_x
          /\ ps # None => doc.next_sibling[ps] = ns
          /\ ns # None => doc.previous_sibling[ns] = ps
          /\ ~InSeq(doc.contents[P], X)

\* the links of h between the nodes of the set S
LinksWithin(h, S) ==
    [d \in S |->
        [contents |-> h.contents[d],
         parent |-> IF h.parent[d] \in S THEN h.parent[d] ELSE None,
         previous_sibling |->
             IF h.previous_sibling[d] \in S THEN h.previous_sibling[d] ELSE None,
         next_sibling |->
             IF h.next_sibling[d] \in S THEN h.next_sibling[d] ELSE None,
         previous_element |->
             IF h.previous_element[d] \in S THEN h.previous_element[d] ELSE None,
         next_element |->
             IF h.next_element[d] \in S THEN h.next_element[d] ELSE None]]

C21_NoDuplicates ==
    (last.op = "select" /\ last.out = "ok")
    => Len(last.res) = Cardinality(ToSet(last.res))

\* "a b": the b is a descendant of two nested tags named a and is returned
\* once
C21_Witness ==
    /\ last.op = "select" /\ last.arg.selector = SelDescendant
    /\ last.arg.limit = 0 /\ last.out = "ok"
    /\ \E e \in Elements :
           /\ payload[e] = "b"
           /\ last.res = <<e>>
           /\ Cardinality({c \in Elements :
                              /\ payload[c] = "a"
                              /\ IsAncestor(doc, last.self, c, NumElements)
                              /\ IsAncestor(doc, c, e, NumElements)}) >= 2

\* C22: select ends with an error for every selector that holds an unknown
\* pseudo-class, an nth-of-type argument that is no number or is less than 1,
\* an empty alternative of a group, or a trailing combinator, whether the
\* offending token follows a name or a combinator and whatever the tree
\* holds.
C22_SelectorErrors ==
    (last.op = "select" /\ last.arg.selector \in BadSelectors)
    => last.out \in {"ValueError", "NotImplementedError"}

\* what select returns for the selector of the last call without a limit
Unlimited == select(doc, last.self, last.arg.selector, "descendants", 0).res

\* C30: select_one returns None exactly when select without a limit returns
\* nothing and its first element otherwise, and select with a limit n >= 1
\* returns the first min(n, m) of the m elements that select returns
\* without a limit.
C30_LimitIsPrefix ==
    /\ (last.op = "select_one" /\ last.out = "ok")
       => last.res = (IF Unlimited = <<>> THEN <<None>> ELSE <<Unlimited[1]>>)
    /\ (last.op = "select" /\ last.arg.limit >= 1 /\ last.out = "ok")
       => last.res = SubSeq(Unlimited, 1, Min(last.arg.limit, Len(Unlimited)))

----------------------------------------------------------------------------
(* The same call on two trees of one shape that carry different payloads   *)

PayloadFree == {"extract", "insert", "replace_with", "unwrap"}

\* the call last records, made on the links h
SameCall(h) ==
    IF last.res[1] = "extract" THEN extract(h, last.self)
    ELSE IF last.res[1] = "insert" THEN insert(h, last.self, last.pos, last.arg)
    ELSE IF last.res[1] = "replace_with" THEN replace_with(h, last.self, last.arg)
    ELSE unwrap(h, last.self)

\* the second tree: the links the first call found, with another name or
\* string on the node n; before keeps the links the first call left and
\* res the call and how it ended
Again(n, v) ==
    /\ last.op \in PayloadFree
    /\ v \in (IF n \in Tags THEN TagNames ELSE Strings)
    /\ v # payload[n]
    /\ payload' = [payload EXCEPT ![n] = v]
    /\ doc' = pre
    /\ before' = doc
    /\ last' = [last EXCEPT !.op = "again", !.res = <<last.op, last.out>>]
    /\ UNCHANGED <<pre, calls>>

\* the same call on the second tree
Twin ==
    /\ last.op = "again"
    /\ doc' = SameCall(doc).h
    /\ last' = [last EXCEPT !.op = "twin", !.out = SameCall(doc).out]
    /\ UNCHANGED <<payload, pre, before, calls>>

NextPayloads ==
    \/ \E p \in Nodes, c \in Nodes : Build(p, c)
    \/ \E x \in Nodes : calls = 0 /\ DoExtract(x)
    \/ \E p \in Nodes, pos \in 0..MaxPos, c \in Nodes :
           calls = 0 /\ DoInsert(p, pos, c)
    \/ \E x \in Nodes, n \in Nodes : calls = 0 /\ DoReplaceWith(x, n)
    \/ \E x \in Nodes : calls = 0 /\ DoUnwrap(x)
    \/ \E n \in Nodes, v \in TagNames \cup Strings : Again(n, v)
    \/ Twin
    \/ Return

SpecPayloads == Init /\ [][NextPayloads]_vars

\* C28: extract, insert, replace_with and unwrap leave the same parent,
\* contents, sibling and document-order links, and end the same way, on two
\* trees of one shape whose nodes carry different names or strings
C28_PayloadIndependent ==
    last.op = "twin" => (doc = before /\ last.out = last.res[2])

----------------------------------------------------------------------------
(* Rendering: the formatters, Tag.decode and Tag.decodexml                 *)

\* the "minimal" substitution as lines 163-164 state it (&amp; &lt; &gt;),
\* on a string of one character; "html" does the same to these characters
substitute_xml(s) ==
    IF s = "<" THEN "&lt;"
    ELSE IF s = ">" THEN "&gt;"
    ELSE IF s = "&" THEN "&amp;"
    ELSE s

_substitute_always(h, ns) == substitute_xml(payload[ns])

\* lines 134-141, with cdata_containing_tags of line 129
_substitute_if_appropriate(h, ns) ==
    IF ns \in Texts /\ h.parent[ns] # None
       /\ payload[h.parent[ns]] \in {"script", "style"}
    THEN payload[ns]
    ELSE substitute_xml(payload[ns])

\* NavigableString.output_ready (PREFIX and SUFFIX are empty) through
\* format_string and _formatter_for_name: formatter is "html", "minimal",
\* "None" or "function", a function of the caller that writes '<' as a
\* numeric reference; is_xml is the flag of the top-level object
format_string(h, ns, formatter, is_xml) ==
    IF formatter = "function"
    THEN (IF payload[ns] = "<" THEN "&#60;" ELSE payload[ns])
    ELSE IF formatter = "None" THEN payload[ns]
    ELSE IF is_xml THEN substitute_xml(payload[ns])
    ELSE _substitute_if_appropriate(h, ns)

\* the flag Tag.__init__ takes from the builder: here the builder names br
can_be_empty_element(tag) == payload[tag] = "br"

\* lines 1090-1181 with indent_level None, for tags without attributes or
\* prefix that are not hidden; decode_contents is lines 1189-1228
RECURSIVE decode(_, _, _, _)
RECURSIVE decode_contents(_, _, _, _, _)
decode(h, self, formatter, is_xml) ==
    IF Len(h.contents[self]) = 0 /\ can_be_empty_element(self)
    THEN "<" \o payload[self] \o "/>"
    ELSE "<" \o payload[self] \o ">"
         \o decode_contents(h, self, 1, formatter, is_xml)
         \o "</" \o payload[self] \o ">"

decode_contents(h, self, i, formatter, is_xml) ==
    IF i > Len(h.contents[self]) THEN ""
    ELSE (IF h.contents[self][i] \in Texts
          THEN format_string(h, h.contents[self][i], formatter, is_xml)
          ELSE decode(h, h.contents[self][i], formatter, is_xml))
         \o decode_contents(h, self, i + 1, formatter, is_xml)

\* s.append(text) before the rest of the rendering r
Prefixed(text, r) == [h |-> r.h, res |-> text \o r.res]

\* lines 1271-1304 with the contents rendered; no tag here carries one of
\* EBOOK_XML_PARENT_TAGS, so is_xmlparent is False, and indent_level is 0
decodexml_markup(r, self) ==
    [h |-> r.h,
     res |-> IF Len(r.h.contents[self]) = 0 /\ can_be_empty_element(self)
             THEN "<" \o payload[self] \o "/>" \o r.res \o "\n"
             ELSE "<" \o payload[self] \o ">" \o r.res
                  \o "</" \o payload[self] \o ">"
                  \o (IF Truthy(r.h.next_sibling[self]) THEN "\n" ELSE "")]

\* lines 1230-1305; lines 1266-1269 assign self.contents = [] when the tag
\* can be an empty element and its string is whitespace
RECURSIVE decodexml(_, _, _, _)
RECURSIVE decodexml_contents(_, _, _, _, _)
RECURSIVE decodexml_after(_, _, _, _, _)
decodexml(h, self, formatter, is_xml) ==
    decodexml_markup(
        decodexml_contents(
            IF can_be_empty_element(self)
               /\ string(h, self, NumTags + NumTexts) \in {Str(" "), Str("")}
            THEN [h EXCEPT !.contents[self] = <<>>]
            ELSE h,
            self, 1, formatter, is_xml),
        self)

\* lines 1307-1331: text.strip() of every string, decodexml of every tag
decodexml_contents(h, self, i, formatter, is_xml) ==
    IF i > Len(h.contents[self]) THEN [h |-> h, res |-> ""]
    ELSE IF h.contents[self][i] \in Texts
    THEN Prefixed(IF payload[h.contents[self][i]] = " " THEN ""
                  ELSE format_string(h, h.contents[self][i], formatter, is_xml),
                  decodexml_contents(h, self, i + 1, formatter, is_xml))
    ELSE decodexml_after(decodexml(h, h.contents[self][i], formatter, is_xml),
                         self, i, formatter, is_xml)

\* the loop goes on with the links the child's decodexml left
decodexml_after(r, self, i, formatter, is_xml) ==
    Prefixed(r.res, decodexml_contents(r.h, self, i + 1, formatter, is_xml))

\* one rendering returns: doc becomes the links it left, pre keeps the
\* links it found, last records the string it returned
Rendered(r, op, self, formatter, is_xml) ==
    /\ last.op = "idle"
    /\ doc' = r.h
    /\ pre' = doc
    /\ last' = Answer(op, self, [formatter |-> formatter, is_xml |-> is_xml],
                      Yield(<<r.res>>, "ok"), TRUE)
    /\ UNCHANGED <<payload, before, calls>>

DoDecode(x, formatter, is_xml) ==
    Rendered([h |-> doc, res |-> decode(doc, x, formatter, is_xml)],
             "decode", x, formatter, is_xml)

DoDecodexml(x, formatter, is_xml) ==
    Rendered(decodexml(doc, x, formatter, is_xml), "decodexml", x, formatter, is_xml)

InitRender ==
    /\ doc = Detached
    /\ payload \in [Nodes -> {"script", "p", "br", "<", " "}]
    /\ \A n \in Tags : payload[n] \in {"script", "p", "br"}
    /\ \A n \in Texts : payload[n] \in {"<", " "}
    /\ last = Idle(TRUE)
    /\ pre = Detached
    /\ before = Detached
    /\ calls = 0

NextRender ==
    \/ \E p \in Nodes, c \in Nodes : Parse(Nodes, p, c)
    \/ \E x \in Tags, formatter \in {"html", "minimal", "None", "function"},
          is_xml \in BOOLEAN : DoDecode(x, formatter, is_xml)
    \/ \E x \in Tags, formatter \in {"html", "minimal", "None", "function"},
          is_xml \in BOOLEAN : DoDecodexml(x, formatter, is_xml)
    \/ Resume

SpecRender == InitRender /\ [][NextRender]_vars

Rendering == {"decode", "decodexml"}

\* C29: decode and decodexml leave the contents list and every parent,
\* sibling and document-order link of every node as they found them
C29_RenderingReadOnly ==
    last.op \in Rendering => doc = pre

\* the tag rendered holds one string, '<'
HoldsLessThan ==
    /\ last.op \in Rendering
    /\ Len(pre.contents[last.self]) = 1
    /\ pre.contents[last.self][1] \in Texts
    /\ payload[pre.contents[last.self][1]] = "<"

\* the markup of the tag rendered around the text emitted for its string
Around(text) ==
    "<" \o payload[last.self] \o ">" \o text \o "</" \o payload[last.self] \o ">"
    \o (IF last.op = "decodexml" /\ Truthy(pre.next_sibling[last.self])
        THEN "\n" ELSE "")

\* C23 as claimed: under every formatter the string '<' of a
\* script or style tag is emitted as it is and the string '<' of a p tag is
\* emitted as '&lt;'
C23_AsClaimed ==
    HoldsLessThan =>
        /\ payload[last.self] \in {"script", "style"} => last.res = <<Around("<")>>
        /\ payload[last.self] = "p" => last.res = <<Around("&lt;")>>

\* C23: in a tree that is not XML, under the formatters "html", "minimal"
\* and None the string '<' of a script or style tag is emitted as it is, and
\* under "html" and "minimal" the string '<' of a p tag is emitted as '&lt;'
C23_ScriptText ==
    (HoldsLessThan /\ ~last.arg.is_xml /\ last.arg.formatter # "function") =>
        /\ payload[last.self] \in {"script", "style"} => last.res = <<Around("<")>>
        /\ (payload[last.self] = "p" /\ last.arg.formatter # "None")
               => last.res = <<Around("&lt;")>>

C23_Witness ==
    /\ HoldsLessThan
    /\ last.op = "decode"
    /\ payload[last.self] = "script"
    /\ last.arg = [formatter |-> "minimal", is_xml |-> FALSE]
    /\ last.res = <<"<script><</script>">>

====
